---- MODULE Spec2Model ----
(***************************************************************************)
(* Model of src/data_integration_pipeline.py: a batch script that loads    *)
(* three delimited files (patients, encounters, observations), cleans      *)
(* them, left-joins them twice on PATIENT, projects the unified table,     *)
(* writes it to a delimited file and then to an SQLite table.              *)
(*                                                                         *)
(* The script is straight-line code, so the state machine is its program   *)
(* counter plus the module-level names it binds.  A cell of a table is a   *)
(* tagged tuple: Null (None / NaN / NaT), Str(s) (text), NumText(n) (text  *)
(* spelling the number n), DateText(d) (text spelling the calendar day d), *)
(* Num(n) (a float64), Ts(d) (a Timestamp), Ymd(d) (the text               *)
(* strftime('%Y-%m-%d') yields for day d).                                 *)
(***************************************************************************)
EXTENDS Integers, Sequences, FiniteSets, TLC

VARIABLES
    pc,                        \* position in the script
    files,                     \* the three input files: present or not, and their rows
    df_patients,               \* line 11
    df_patients_clean,         \* line 56
    df_encounters,             \* line 12
    df_observations,           \* line 13
    median_value,              \* line 100
    df_integrated_encounters,  \* line 110
    df_unified_data,           \* line 124
    df_unified_data_final,     \* line 179
    csv_file,                  \* ../data/unified_health_data.csv
    conn,                      \* the sqlite3 connection: "none", "open", "closed"
    db_table,                  \* table unified_patient_encounters_labs of health_data.db
    uncaught,                  \* the exception that ended the run, "none" while there is none
    logged                     \* the except branch at line 215 has printed the store error

vars == <<pc, files, df_patients, df_patients_clean, df_encounters, df_observations,
          median_value, df_integrated_encounters, df_unified_data,
          df_unified_data_final, csv_file, conn, db_table, uncaught, logged>>

(***************************************************************************)
(* Bounds of the model: the longest table of each kind.                    *)
(***************************************************************************)
MaxPersons == 2
MaxVisits == 2
MaxMeas == 2
\* The longest observations table where the imputation of VALUE is studied:
\* its first row is blanked, so a median of two numbers needs three rows.
MaxMeasImpute == 3

(***************************************************************************)
(* Cells.                                                                  *)
(***************************************************************************)
Null == <<"null">>
Str(s) == <<"str", s>>
NumText(n) == <<"numeric-text", n>>
DateText(d) == <<"date-text", d>>
Num(n) == <<"num", n>>
Ts(d) == <<"ts", d>>
Ymd(d) == <<"ymd", d>>

Tag(c) == c[1]

RECURSIVE Flatten(_)
Flatten(ss) == IF ss = <<>> THEN <<>> ELSE Head(ss) \o Flatten(Tail(ss))

\* The positions of the rows of t, in order, whose PATIENT is key: the rows
\* pd.merge(..., on='PATIENT') pairs with a left row of that key.
Matching(t, key) == SelectSeq([i \in 1..Len(t) |-> i], LAMBDA i : t[i].PATIENT = key)

(***************************************************************************)
(* Input files.  NoFile is a path at which nothing exists.                 *)
(***************************************************************************)
NoFile == [exists |-> FALSE, rows |-> <<>>]
File(t) == [exists |-> TRUE, rows |-> t]

TablesUpTo(Rows, n) == UNION {[1..k -> Rows] : k \in 0..n}

PersonIds == {Str("P1"), Str("P2")}

\* patients.csv rows (STATE_ is the column STATE, a reserved word here).  RACE,
\* ETHNICITY, MARITAL and COUNTY are selected at line 56 and dropped again at
\* line 179 without being read; they are left out.
PersonRows(Ids, Genders) ==
    [Id : Ids, BIRTHDATE : {Str("1980-02-03")}, GENDER : Genders,
     STATE_ : {Str("Massachusetts")}, CITY : {Str("Boston")}, ZIP : {Str("02108")}]

\* encounters.csv rows without their Id, which is the row's own identifier.
VisitRows(Ids, Starts, Stops, Codes) ==
    [PATIENT : Ids, START : Starts, STOP : Stops, ENCOUNTER_CLASS : {Str("ambulatory")},
     CODE : Codes, DESCRIPTION : {Str("Encounter for problem")},
     REASONCODE : {Null}, REASONDESCRIPTION : {Null}]

\* observations.csv rows without their Id.
MeasRows(Ids, Dates, Values) ==
    [PATIENT : Ids, DATE : Dates, CODE : {Str("8302-2")}, DESCRIPTION : {Str("Body Height")},
     VALUE : Values, UNIT : {Str("cm")}, TYPE : {Str("numeric")}]

\* Row identifiers are distinct within a file: row i of file f has Id <<"id", f, i>>.
WithIds(f, t) == [i \in 1..Len(t) |-> t[i] @@ [Id |-> <<"id", f, i>>]]

FilesOver(PRows, VRows, MRows, maxMeas) ==
    { [patients |-> p, encounters |-> e, observations |-> o] :
        p \in {NoFile} \cup {File(t) : t \in TablesUpTo(PRows, MaxPersons)},
        e \in {NoFile} \cup {File(WithIds("V", t)) : t \in TablesUpTo(VRows, MaxVisits)},
        o \in {NoFile} \cup {File(WithIds("O", t)) : t \in TablesUpTo(MRows, maxMeas)} }

InitOver(PRows, VRows, MRows, maxMeas) ==
    /\ files \in FilesOver(PRows, VRows, MRows, maxMeas)
    /\ pc = "load"
    /\ df_patients = <<>>
    /\ df_patients_clean = <<>>
    /\ df_encounters = <<>>
    /\ df_observations = <<>>
    /\ median_value = Null
    /\ df_integrated_encounters = <<>>
    /\ df_unified_data = <<>>
    /\ df_unified_data_final = <<>>
    /\ csv_file = NoFile
    /\ conn = "none"
    /\ db_table = NoFile
    /\ uncaught = "none"
    /\ logged = FALSE

(***************************************************************************)
(* 1. Load data (lines 10-17).                                             *)
(***************************************************************************)
AllPresent ==
    files.patients.exists /\ files.encounters.exists /\ files.observations.exists

\* Lines 11-14: the three reads succeed.
Load ==
    /\ pc = "load"
    /\ AllPresent
    /\ df_patients' = files.patients.rows
    /\ df_encounters' = files.encounters.rows
    /\ df_observations' = files.observations.rows
    /\ pc' = "select_patients"
    /\ UNCHANGED <<files, df_patients_clean, median_value, df_integrated_encounters,
                   df_unified_data, df_unified_data_final, csv_file, conn, db_table,
                   uncaught, logged>>

\* LoadFail as it would be if a missing file were read as an empty table and
\* the script went on.
LoadFail_continue ==
    /\ pc = "load"
    /\ ~AllPresent
    /\ df_patients' = files.patients.rows
    /\ df_encounters' = files.encounters.rows
    /\ df_observations' = files.observations.rows
    /\ pc' = "select_patients"
    /\ UNCHANGED <<files, df_patients_clean, median_value, df_integrated_encounters,
                   df_unified_data, df_unified_data_final, csv_file, conn, db_table,
                   uncaught, logged>>

\* Lines 11-17: the first read of a missing file raises FileNotFoundError; the
\* reads before it have bound their names, the handler prints and exit() ends the run.
LoadFail ==
    /\ pc = "load"
    /\ ~AllPresent
    /\ df_patients' = files.patients.rows
    /\ df_encounters' = IF files.patients.exists THEN files.encounters.rows ELSE <<>>
    /\ df_observations' = <<>>
    /\ pc' = "halted"
    /\ UNCHANGED <<files, df_patients_clean, median_value, df_integrated_encounters,
                   df_unified_data, df_unified_data_final, csv_file, conn, db_table,
                   uncaught, logged>>

\* What has not happened yet at any step before the export.
NoSink == UNCHANGED <<csv_file, conn, db_table, logged>>

(***************************************************************************)
(* 3. Data cleaning and standardization (lines 52-102).                    *)
(***************************************************************************)
\* Line 52: rename(columns={'Id': 'PATIENT'}).
RenameId(r) ==
    [PATIENT |-> r.Id, BIRTHDATE |-> r.BIRTHDATE, GENDER |-> r.GENDER,
     STATE_ |-> r.STATE_, CITY |-> r.CITY, ZIP |-> r.ZIP]

\* Lines 52-56: rename in place, then take the demographic columns as a new table.
SelectPatients ==
    /\ pc = "select_patients"
    /\ df_patients' = [i \in 1..Len(df_patients) |-> RenameId(df_patients[i])]
    /\ df_patients_clean' = df_patients'
    /\ pc' = "simulate_gender"
    /\ NoSink
    /\ UNCHANGED <<files, df_encounters, df_observations, median_value,
                   df_integrated_encounters, df_unified_data, df_unified_data_final,
                   uncaught>>

\* BlankFirstGender as it would be if the assignment named the whole column.
BlankFirstGender_all(t) ==
    [i \in 1..Len(t) |-> [t[i] EXCEPT !.GENDER = Null]]

\* Lines 59-60: the table with GENDER of its first row set to None.
BlankFirstGender(t) ==
    IF t = <<>> THEN t ELSE [t EXCEPT ![1].GENDER = Null]

\* Lines 59-61.
SimulateGender ==
    /\ pc = "simulate_gender"
    /\ df_patients_clean' = BlankFirstGender(df_patients_clean)
    /\ pc' = "fill_gender"
    /\ NoSink
    /\ UNCHANGED <<files, df_patients, df_encounters, df_observations, median_value,
                   df_integrated_encounters, df_unified_data, df_unified_data_final,
                   uncaught>>

\* Fillna as it would be if its result were dropped (fillna is not in place).
Fillna_dropped(c, v) == c

\* Series.fillna(v) on one cell.
Fillna(c, v) == IF c = Null THEN v ELSE c

\* FillGenderColumn as it would be if line 64 were missing.
FillGenderColumn_skipped(t) == t

\* Line 64: df_patients_clean['GENDER'].fillna('Unknown').
FillGenderColumn(t) ==
    [i \in 1..Len(t) |-> [t[i] EXCEPT !.GENDER = Fillna(t[i].GENDER, Str("Unknown"))]]

\* Line 64.
FillGender ==
    /\ pc = "fill_gender"
    /\ df_patients_clean' = FillGenderColumn(df_patients_clean)
    /\ pc' = "encounter_dates"
    /\ NoSink
    /\ UNCHANGED <<files, df_patients, df_encounters, df_observations, median_value,
                   df_integrated_encounters, df_unified_data, df_unified_data_final,
                   uncaught>>

\* pd.to_datetime(column) is called without errors='coerce' (lines 69, 70, 84):
\* a missing cell becomes NaT, a date text becomes its Timestamp, and any other
\* text makes the call raise for the whole column.
Parseable(c) == Tag(c) \in {"null", "date-text", "ts"}

ToDatetime(c) == IF Tag(c) = "date-text" THEN Ts(c[2]) ELSE c

\* Series.dt.strftime('%Y-%m-%d') on one cell: NaT gives NaN.
Strftime(c) == IF Tag(c) = "ts" THEN Ymd(c[2]) ELSE Null

\* Lines 69-71.  Line 69 rebinds START only if the whole column parses, line 70
\* likewise for STOP; the exception of either is caught nowhere.
EncounterDates ==
    /\ pc = "encounter_dates"
    /\ IF \E i \in 1..Len(df_encounters) : ~Parseable(df_encounters[i].START)
       THEN /\ df_encounters' = df_encounters
            /\ uncaught' = "DateParseError"
            /\ pc' = "crashed"
       ELSE IF \E i \in 1..Len(df_encounters) : ~Parseable(df_encounters[i].STOP)
       THEN /\ df_encounters' =
                   [i \in 1..Len(df_encounters) |->
                      [df_encounters[i] EXCEPT !.START = ToDatetime(@)]]
            /\ uncaught' = "DateParseError"
            /\ pc' = "crashed"
       ELSE /\ df_encounters' =
                   [i \in 1..Len(df_encounters) |->
                      [df_encounters[i] EXCEPT !.START = ToDatetime(@),
                                               !.STOP = ToDatetime(@)]
                      @@ [ENCOUNTER_DATE |-> Strftime(ToDatetime(df_encounters[i].START))]]
            /\ uncaught' = uncaught
            /\ pc' = "encounter_code"
    /\ NoSink
    /\ UNCHANGED <<files, df_patients, df_patients_clean, df_observations, median_value,
                   df_integrated_encounters, df_unified_data, df_unified_data_final>>

\* str(series): one text that prints the whole column (index, values, name and
\* dtype), whatever the number of rows.
SeriesStr(t, col) == <<"str(Series)", col, [i \in 1..Len(t) |-> t[i][col]]>>

\* Line 79: df_encounters['CODE'] = str(df_encounters['CODE']) assigns that one
\* text to every row.
StandardizeCode(t) ==
    [i \in 1..Len(t) |-> [t[i] EXCEPT !.CODE = SeriesStr(t, "CODE")]]

\* Lines 76-79.  Line 77 assigns the second row's CODE to itself.
EncounterCode ==
    /\ pc = "encounter_code"
    /\ df_encounters' = StandardizeCode(df_encounters)
    /\ pc' = "observation_dates"
    /\ NoSink
    /\ UNCHANGED <<files, df_patients, df_patients_clean, df_observations, median_value,
                   df_integrated_encounters, df_unified_data, df_unified_data_final,
                   uncaught>>

\* Lines 84-85.
ObservationDates ==
    /\ pc = "observation_dates"
    /\ IF \E i \in 1..Len(df_observations) : ~Parseable(df_observations[i].DATE)
       THEN /\ df_observations' = df_observations
            /\ uncaught' = "DateParseError"
            /\ pc' = "crashed"
       ELSE /\ df_observations' =
                   [i \in 1..Len(df_observations) |->
                      [df_observations[i] EXCEPT !.DATE = ToDatetime(@)]
                      @@ [OBSERVATION_DATE |->
                            Strftime(ToDatetime(df_observations[i].DATE))]]
            /\ uncaught' = uncaught
            /\ pc' = "simulate_value"
    /\ NoSink
    /\ UNCHANGED <<files, df_patients, df_patients_clean, df_encounters, median_value,
                   df_integrated_encounters, df_unified_data, df_unified_data_final>>

\* Lines 89-90: the table with VALUE of its first row set to None.
BlankFirstValue(t) ==
    IF t = <<>> THEN t ELSE [t EXCEPT ![1].VALUE = Null]

\* Lines 89-92.
SimulateValue ==
    /\ pc = "simulate_value"
    /\ df_observations' = BlankFirstValue(df_observations)
    /\ pc' = "impute_value"
    /\ NoSink
    /\ UNCHANGED <<files, df_patients, df_patients_clean, df_encounters, median_value,
                   df_integrated_encounters, df_unified_data, df_unified_data_final,
                   uncaught>>

\* A float64 x is held as Num(2 * x): the inputs are whole numbers, so every
\* median is a multiple of 1/2 and is held exactly.
\* pd.to_numeric(cell, errors='coerce'): a number text becomes its number, a
\* missing cell and any other text become NaN.
ToNumeric(c) ==
    IF Tag(c) = "numeric-text" THEN Num(2 * c[2])
    ELSE IF Tag(c) = "num" THEN c
    ELSE Null

\* The k-th smallest of the numbers held by the cells of s (1 <= k <= Len(s)).
KthSmallest(s, k) ==
    CHOOSE x \in {s[i][2] : i \in 1..Len(s)} :
        /\ Cardinality({i \in 1..Len(s) : s[i][2] < x}) < k
        /\ Cardinality({i \in 1..Len(s) : s[i][2] <= x}) >= k

\* Median as it would be if an even count took the lower middle number.
Median_lowerMiddle(col) ==
    LET nums == SelectSeq(col, LAMBDA c : c # Null)
        n == Len(nums)
    IN  IF n = 0 THEN Null
        ELSE Num(KthSmallest(nums, (n + 1) \div 2))

\* Series.median(): NaN cells are skipped; the middle number, or the mean of
\* the two middle numbers; NaN when no number is left.
Median(col) ==
    LET nums == SelectSeq(col, LAMBDA c : c # Null)
        n == Len(nums)
    IN  IF n = 0 THEN Null
        ELSE IF n % 2 = 1 THEN Num(KthSmallest(nums, (n + 1) \div 2))
        ELSE Num((KthSmallest(nums, n \div 2) + KthSmallest(nums, n \div 2 + 1)) \div 2)

\* Line 101: median_value if pd.notna(median_value) else 0.
FillValue(m) == IF m # Null THEN m ELSE Num(0)

\* Lines 99-101.
ImputeValue ==
    /\ pc = "impute_value"
    /\ LET numeric == [i \in 1..Len(df_observations) |-> ToNumeric(df_observations[i].VALUE)]
       IN  /\ median_value' = Median(numeric)
           /\ df_observations' =
                  [i \in 1..Len(df_observations) |->
                     [df_observations[i] EXCEPT
                        !.VALUE = Fillna(numeric[i], FillValue(Median(numeric)))]]
    /\ pc' = "merge_patients"
    /\ NoSink
    /\ UNCHANGED <<files, df_patients, df_patients_clean, df_encounters,
                   df_integrated_encounters, df_unified_data, df_unified_data_final,
                   uncaught>>

(***************************************************************************)
(* 4. Integration (lines 110-179).  A merged row also records the source   *)
(* rows it derives from (src_visit, src_person, src_obs: positions in the  *)
(* three loaded tables, 0 for none); these are history fields that no      *)
(* column of the DataFrame holds and that the export does not write.       *)
(***************************************************************************)
PersonColumns(p) ==
    [BIRTHDATE |-> p.BIRTHDATE, GENDER |-> p.GENDER, STATE_ |-> p.STATE_,
     CITY |-> p.CITY, ZIP |-> p.ZIP]

NullPerson ==
    [BIRTHDATE |-> Null, GENDER |-> Null, STATE_ |-> Null, CITY |-> Null, ZIP |-> Null]

\* The rows of pd.merge(left, right, on='PATIENT', how='left') that come from
\* row i of left: one per matching row of right, in right's order, or one with
\* right's columns missing.
EncounterWithPatients(left, right, i) ==
    LET m == Matching(right, left[i].PATIENT)
    IN  IF m = <<>>
        THEN << left[i] @@ NullPerson @@ [src_visit |-> i, src_person |-> 0] >>
        ELSE [k \in 1..Len(m) |->
                left[i] @@ PersonColumns(right[m[k]])
                        @@ [src_visit |-> i, src_person |-> m[k]]]

\* Lines 110-116.
MergePatientsTable(left, right) ==
    Flatten([i \in 1..Len(left) |-> EncounterWithPatients(left, right, i)])

MergePatients ==
    /\ pc = "merge_patients"
    /\ df_integrated_encounters' = MergePatientsTable(df_encounters, df_patients_clean)
    /\ pc' = "merge_observations"
    /\ NoSink
    /\ UNCHANGED <<files, df_patients, df_patients_clean, df_encounters, df_observations,
                   median_value, df_unified_data, df_unified_data_final, uncaught>>

NullObservation ==
    [Id |-> Null, DATE |-> Null, CODE |-> Null, DESCRIPTION |-> Null, VALUE |-> Null,
     UNIT |-> Null, TYPE |-> Null, OBSERVATION_DATE |-> Null]

\* One merged row of lines 124-130: the columns both sides have (Id, CODE,
\* DESCRIPTION) get the suffixes '_encounter' and '_observation'.
UnifiedRow(l, o, j) ==
    [PATIENT |-> l.PATIENT, Id_encounter |-> l.Id, START |-> l.START, STOP |-> l.STOP,
     ENCOUNTER_CLASS |-> l.ENCOUNTER_CLASS, CODE_encounter |-> l.CODE,
     DESCRIPTION_encounter |-> l.DESCRIPTION, REASONCODE |-> l.REASONCODE,
     REASONDESCRIPTION |-> l.REASONDESCRIPTION, ENCOUNTER_DATE |-> l.ENCOUNTER_DATE,
     BIRTHDATE |-> l.BIRTHDATE, GENDER |-> l.GENDER, STATE_ |-> l.STATE_,
     CITY |-> l.CITY, ZIP |-> l.ZIP,
     Id_observation |-> o.Id, DATE |-> o.DATE, CODE_observation |-> o.CODE,
     DESCRIPTION_observation |-> o.DESCRIPTION, VALUE |-> o.VALUE, UNIT |-> o.UNIT,
     TYPE |-> o.TYPE, OBSERVATION_DATE |-> o.OBSERVATION_DATE,
     src_visit |-> l.src_visit, src_person |-> l.src_person, src_obs |-> j]

\* EncounterWithObservations as it would be with how='inner'.
EncounterWithObservations_inner(left, right, i) ==
    LET m == Matching(right, left[i].PATIENT)
    IN  [k \in 1..Len(m) |-> UnifiedRow(left[i], right[m[k]], m[k])]

EncounterWithObservations(left, right, i) ==
    LET m == Matching(right, left[i].PATIENT)
    IN  IF m = <<>>
        THEN << UnifiedRow(left[i], NullObservation, 0) >>
        ELSE [k \in 1..Len(m) |-> UnifiedRow(left[i], right[m[k]], m[k])]

\* Lines 124-130.
MergeObservationsTable(left, right) ==
    Flatten([i \in 1..Len(left) |-> EncounterWithObservations(left, right, i)])

MergeObservations ==
    /\ pc = "merge_observations"
    /\ df_unified_data' = MergeObservationsTable(df_integrated_encounters, df_observations)
    /\ pc' = "project"
    /\ NoSink
    /\ UNCHANGED <<files, df_patients, df_patients_clean, df_encounters, df_observations,
                   median_value, df_integrated_encounters, df_unified_data_final,
                   uncaught>>

\* Lines 165-172.
final_unified_columns ==
    {"PATIENT", "GENDER", "BIRTHDATE", "CITY", "STATE_", "ZIP",
     "Encounter_ID", "Encounter_Start_DateTime", "Encounter_End_DateTime",
     "Encounter_Type_Class", "Encounter_Code", "Encounter_Description",
     "REASONCODE", "REASONDESCRIPTION", "ENCOUNTER_DATE",
     "Observation_ID", "OBSERVATION_DATE", "Observation_Code", "Observation_Description",
     "Observation_Value", "Observation_Unit", "Observation_Type"}

\* Lines 148-179 on one row: the renames of lines 148-161, then the selection of
\* final_unified_columns.  Every one of them exists after the merges, so the
\* loop of lines 175-177 adds none.
ProjectRow(r) ==
    [PATIENT |-> r.PATIENT, GENDER |-> r.GENDER, BIRTHDATE |-> r.BIRTHDATE,
     CITY |-> r.CITY, STATE_ |-> r.STATE_, ZIP |-> r.ZIP,
     Encounter_ID |-> r.Id_encounter, Encounter_Start_DateTime |-> r.START,
     Encounter_End_DateTime |-> r.STOP, Encounter_Type_Class |-> r.ENCOUNTER_CLASS,
     Encounter_Code |-> r.CODE_encounter, Encounter_Description |-> r.DESCRIPTION_encounter,
     REASONCODE |-> r.REASONCODE, REASONDESCRIPTION |-> r.REASONDESCRIPTION,
     ENCOUNTER_DATE |-> r.ENCOUNTER_DATE,
     Observation_ID |-> r.Id_observation, OBSERVATION_DATE |-> r.OBSERVATION_DATE,
     Observation_Code |-> r.CODE_observation,
     Observation_Description |-> r.DESCRIPTION_observation,
     Observation_Value |-> r.VALUE, Observation_Unit |-> r.UNIT,
     Observation_Type |-> r.TYPE,
     src_visit |-> r.src_visit, src_person |-> r.src_person, src_obs |-> r.src_obs]

Project ==
    /\ pc = "project"
    /\ df_unified_data_final' =
           [i \in 1..Len(df_unified_data) |-> ProjectRow(df_unified_data[i])]
    /\ pc' = "export"
    /\ NoSink
    /\ UNCHANGED <<files, df_patients, df_patients_clean, df_encounters, df_observations,
                   median_value, df_integrated_encounters, df_unified_data, uncaught>>

(***************************************************************************)
(* 5. Export and the SQLite sink (lines 190-218).                          *)
(***************************************************************************)
Frames ==
    <<files, df_patients, df_patients_clean, df_encounters, df_observations,
      median_value, df_integrated_encounters, df_unified_data, df_unified_data_final>>

\* What to_csv and to_sql write of a table: its columns, index=False.
Written(t) ==
    File([i \in 1..Len(t) |-> [c \in final_unified_columns |-> t[i][c]]])

\* Line 192.
ExportCsv ==
    /\ pc = "export"
    /\ csv_file' = Written(df_unified_data_final)
    /\ pc' = "connect"
    /\ UNCHANGED <<Frames, conn, db_table, uncaught, logged>>

\* Line 199: sqlite3.connect stands before the try of line 201, so its
\* exception is caught by nothing.
Connect ==
    /\ pc = "connect"
    /\ \E ok \in BOOLEAN :
          IF ok
          THEN conn' = "open" /\ pc' = "to_sql" /\ uncaught' = uncaught
          ELSE conn' = conn /\ pc' = "crashed" /\ uncaught' = "sqlite3.OperationalError"
    /\ UNCHANGED <<Frames, csv_file, db_table, logged>>

\* Line 202, and lines 214-215 when it raises.
ToSql ==
    /\ pc = "to_sql"
    /\ \E ok \in BOOLEAN :
          IF ok
          THEN db_table' = Written(df_unified_data_final) /\ pc' = "query"
               /\ logged' = logged
          ELSE db_table' = db_table /\ pc' = "finally" /\ logged' = TRUE
    /\ UNCHANGED <<Frames, csv_file, conn, uncaught>>

\* Lines 207-212, and lines 214-215 when the query raises.
Query ==
    /\ pc = "query"
    /\ \E ok \in BOOLEAN : logged' = ~ok
    /\ pc' = "finally"
    /\ UNCHANGED <<Frames, csv_file, conn, db_table, uncaught>>

\* Lines 216-220.
Finally ==
    /\ pc = "finally"
    /\ conn' = "closed"
    /\ pc' = "done"
    /\ UNCHANGED <<Frames, csv_file, db_table, uncaught, logged>>

Next ==
    \/ Load
    \/ LoadFail
    \/ SelectPatients
    \/ SimulateGender
    \/ FillGender
    \/ EncounterDates
    \/ EncounterCode
    \/ ObservationDates
    \/ SimulateValue
    \/ ImputeValue
    \/ MergePatients
    \/ MergeObservations
    \/ Project
    \/ ExportCsv
    \/ Connect
    \/ ToSql
    \/ Query
    \/ Finally

(***************************************************************************)
(* Specifications.  Each draws the three files from its own bounded set of *)
(* tables (or leaves a file missing) and runs the whole script on them.    *)
(***************************************************************************)
OneDay == {DateText(1)}

\* The joins: any PATIENT on any row, persons rows that may share an Id, and
\* measurements dated the day of the visit or another day.
Init ==
    InitOver(PersonRows(PersonIds, {Str("F")}),
             VisitRows(PersonIds, OneDay, OneDay, {Str("185345009")}),
             MeasRows(PersonIds, {DateText(1), DateText(2)}, {NumText(2)}),
             MaxMeas)

Spec == Init /\ [][Next]_vars

\* The GENDER policy: GENDER missing, present, or already the text 'Unknown'.
InitGender ==
    InitOver(PersonRows(PersonIds, {Null, Str("M"), Str("Unknown")}),
             VisitRows(PersonIds, OneDay, OneDay, {Str("185345009")}),
             MeasRows({Str("P1")}, OneDay, {NumText(2)}),
             MaxMeas)

SpecGender == InitGender /\ [][Next]_vars

\* The VALUE policy: VALUE missing, free text, or the text of a number.
InitValue ==
    InitOver(PersonRows({Str("P1")}, {Str("F")}),
             VisitRows(PersonIds, OneDay, OneDay, {Str("185345009")}),
             MeasRows({Str("P1")}, OneDay,
                      {Null, Str("abnormal"), NumText(2), NumText(6)}),
             MaxMeasImpute)

SpecValue == InitValue /\ [][Next]_vars

\* The columns of a visit: visits with the same or with different CODEs.
InitCodes ==
    InitOver(PersonRows(PersonIds, {Str("F")}),
             VisitRows(PersonIds, OneDay, OneDay, {Str("185345009"), Str("50849002")}),
             MeasRows(PersonIds, OneDay, {NumText(2)}),
             MaxMeas)

SpecCodes == InitCodes /\ [][Next]_vars

\* The dates: a date cell missing, well formed, or unparseable.
InitDates ==
    InitOver(PersonRows({Str("P1")}, {Str("F")}),
             VisitRows({Str("P1")}, {Null, DateText(1), Str("not-a-date")},
                       {DateText(2), Str("not-a-date")}, {Str("185345009")}),
             MeasRows({Str("P1")}, {Null, DateText(1), Str("not-a-date")}, {NumText(2)}),
             MaxMeas)

SpecDates == InitDates /\ [][Next]_vars

(***************************************************************************)
(* Vocabulary of the properties.                                           *)
(***************************************************************************)
Persons == files.patients.rows
Visits == files.encounters.rows
Measurements == files.observations.rows

\* The final table df_unified_data_final has been built.
HasFinal ==
    \/ pc \in {"export", "connect", "to_sql", "query", "finally", "done"}
    \/ pc = "crashed" /\ csv_file.exists

\* The Cleaner has run on the observations (line 101 is behind).
Cleaned ==
    \/ pc \in {"merge_patients", "merge_observations", "project"}
    \/ HasFinal

Max(a, b) == IF a >= b THEN a ELSE b

RECURSIVE SumSeq(_)
SumSeq(s) == IF s = <<>> THEN 0 ELSE Head(s) + SumSeq(Tail(s))

PersonsOf(v) == Cardinality({i \in 1..Len(Persons) : Persons[i].Id = v.PATIENT})
MeasurementsOf(v) ==
    Cardinality({i \in 1..Len(Measurements) : Measurements[i].PATIENT = v.PATIENT})

UniquePersonIds ==
    \A i, j \in 1..Len(Persons) : Persons[i].Id = Persons[j].Id => i = j

\* The rows of the final table.
Out == df_unified_data_final
OutRows == 1..Len(df_unified_data_final)

\* A source VALUE is numeric when it is the text of a number; NumberOf is that number.
IsNumeric(c) == Tag(c) = "numeric-text"
NumberOf(c) == Num(2 * c[2])

RECURSIVE InsertSorted(_, _)
InsertSorted(x, s) ==
    IF s = <<>> THEN <<x>>
    ELSE IF x <= Head(s) THEN <<x>> \o s
    ELSE <<Head(s)>> \o InsertSorted(x, Tail(s))

RECURSIVE SortAsc(_)
SortAsc(s) == IF s = <<>> THEN <<>> ELSE InsertSorted(Head(s), SortAsc(Tail(s)))

\* The median of the numbers of the numeric cells among the rows `rows` of the
\* VALUE column as the file has it, or 0 when there is none: defined by sorting.
FallbackOver(rows) ==
    LET idx == SelectSeq([i \in 1..Len(Measurements) |-> i],
                         LAMBDA i : i \in rows /\ IsNumeric(Measurements[i].VALUE))
        srt == SortAsc([k \in 1..Len(idx) |-> NumberOf(Measurements[idx[k]].VALUE)[2]])
        n == Len(srt)
    IN  IF n = 0 THEN Num(0)
        ELSE IF n % 2 = 1 THEN Num(srt[(n + 1) \div 2])
        ELSE Num((srt[n \div 2] + srt[n \div 2 + 1]) \div 2)

\* The fallback of the run: line 90 blanks the first row before the median is taken.
RunFallback == FallbackOver(2..Len(Measurements))

(***************************************************************************)
(* C1.                                                                     *)
(***************************************************************************)
\* C1 (as claimed): the final table has as many rows as the sum, over the visit
\* rows v, of max(1, number of measurement rows whose PATIENT equals v.PATIENT),
\* whatever the persons table and the dates.
C1_RowCountIgnoresPersons ==
    HasFinal =>
        Len(Out) = SumSeq([i \in 1..Len(Visits) |-> Max(1, MeasurementsOf(Visits[i]))])

\* C1 (amended): the final table has as many rows as the sum, over the visit rows
\* v, of max(1, persons rows whose Id equals v.PATIENT) times max(1, measurement
\* rows whose PATIENT equals v.PATIENT); when no two persons rows share an Id that
\* is the claimed sum.  No date enters the count.
C1_RowCount ==
    HasFinal =>
        /\ Len(Out) = SumSeq([i \in 1..Len(Visits) |->
                                Max(1, PersonsOf(Visits[i])) * Max(1, MeasurementsOf(Visits[i]))])
        /\ UniquePersonIds =>
              Len(Out) = SumSeq([i \in 1..Len(Visits) |-> Max(1, MeasurementsOf(Visits[i]))])

\* A finished run in which one visit fans out over two measurements of different
\* dates and another visit has no measurement, no persons row repeated.
C1_Witness ==
    /\ pc = "done"
    /\ UniquePersonIds
    /\ Len(Visits) = 2
    /\ Len(Out) = 3
    /\ \E i, j \in 1..Len(Measurements) : Measurements[i].DATE # Measurements[j].DATE
    /\ \E i \in 1..Len(Visits) : MeasurementsOf(Visits[i]) = 0

(***************************************************************************)
(* C2.                                                                     *)
(***************************************************************************)
\* C2 (as claimed): in every row of the final table GENDER holds a value, never
\* a null.
C2_GenderNeverNull ==
    HasFinal => \A k \in OutRows : Out[k].GENDER # Null

\* C2 (amended): in every row of the final table that derives from a persons row
\* GENDER holds a value, and it is 'Unknown' when that person's GENDER is missing
\* in the input; the rows of a visit whose PATIENT matches no persons row have a
\* null GENDER.
C2_GenderOfMatchedRows ==
    HasFinal =>
        \A k \in OutRows :
            IF Out[k].src_person = 0
            THEN Out[k].GENDER = Null
            ELSE /\ Out[k].GENDER # Null
                 /\ Persons[Out[k].src_person].GENDER = Null
                      => Out[k].GENDER = Str("Unknown")

\* A final table with a row of a person whose GENDER is missing in the input (not
\* the first persons row) and a row of a visit without a person.
C2_Witness ==
    /\ HasFinal
    /\ \E k \in OutRows :
          /\ Out[k].src_person > 1
          /\ Persons[Out[k].src_person].GENDER = Null
          /\ Out[k].GENDER = Str("Unknown")
    /\ \E k \in OutRows : Out[k].src_person = 0

(***************************************************************************)
(* C9.                                                                     *)
(***************************************************************************)
\* C9 (as claimed): every row of the final table that derives from a persons row
\* whose GENDER is present carries exactly that GENDER, and 'Unknown' appears only
\* for a person whose GENDER is missing or already 'Unknown' in the input.
C9_GenderUntouched ==
    HasFinal =>
        \A k \in OutRows :
            Out[k].src_person # 0 =>
                LET g == Persons[Out[k].src_person].GENDER
                IN  /\ g # Null => Out[k].GENDER = g
                    /\ Out[k].GENDER = Str("Unknown") => g \in {Null, Str("Unknown")}

\* C9 (amended): that holds of every persons row but the first; the rows that
\* derive from the first persons row carry 'Unknown' whatever its GENDER, since
\* lines 59-60 blank it before the policy runs.
C9_GenderUntouchedButFirst ==
    HasFinal =>
        \A k \in OutRows :
            Out[k].src_person # 0 =>
                LET g == Persons[Out[k].src_person].GENDER
                IN  IF Out[k].src_person = 1
                    THEN Out[k].GENDER = Str("Unknown")
                    ELSE /\ g # Null => Out[k].GENDER = g
                         /\ Out[k].GENDER = Str("Unknown") => g \in {Null, Str("Unknown")}

\* A final table with rows of the first persons row, whose GENDER 'M' was
\* replaced, and rows of a second persons row, whose GENDER 'M' was kept.
C9_Witness ==
    /\ HasFinal
    /\ \E k \in OutRows :
          /\ Out[k].src_person = 1
          /\ Persons[1].GENDER = Str("M")
          /\ Out[k].GENDER = Str("Unknown")
    /\ \E k \in OutRows :
          /\ Out[k].src_person = 2
          /\ Persons[2].GENDER = Str("M")
          /\ Out[k].GENDER = Str("M")

(***************************************************************************)
(* C3.                                                                     *)
(***************************************************************************)
\* C3 (as claimed): in every row of the final table Observation_Value is a
\* number, the measurement's own numeric value or the fallback of the run; never
\* free text.
C3_ValueAlwaysNumber ==
    HasFinal =>
        \A k \in OutRows :
            /\ Tag(Out[k].Observation_Value) = "num"
            /\ \/ Out[k].Observation_Value = RunFallback
               \/ /\ Out[k].src_obs # 0
                  /\ IsNumeric(Measurements[Out[k].src_obs].VALUE)
                  /\ Out[k].Observation_Value = NumberOf(Measurements[Out[k].src_obs].VALUE)

\* C3 (amended): in every row of the final table that derives from a measurement
\* Observation_Value is a number, the measurement's own numeric value or the one
\* fallback of the run (the median of the numeric VALUEs below the first row, or 0
\* when there is none); in the row of a visit without a measurement it is null;
\* it is never free text.
C3_ValueNumberOrNull ==
    HasFinal =>
        \A k \in OutRows :
            IF Out[k].src_obs = 0
            THEN Out[k].Observation_Value = Null
            ELSE /\ Tag(Out[k].Observation_Value) = "num"
                 /\ \/ Out[k].Observation_Value = RunFallback
                    \/ /\ IsNumeric(Measurements[Out[k].src_obs].VALUE)
                       /\ Out[k].Observation_Value =
                              NumberOf(Measurements[Out[k].src_obs].VALUE)

\* A final table with a row below the first whose free-text VALUE became the
\* fallback, a row below the first that kept its own number, and a row of a
\* visit without a measurement.
C3_Witness ==
    /\ HasFinal
    /\ \E k \in OutRows :
          /\ Out[k].src_obs > 1
          /\ Measurements[Out[k].src_obs].VALUE = Str("abnormal")
          /\ Out[k].Observation_Value = RunFallback
    /\ \E k \in OutRows :
          /\ Out[k].src_obs > 1
          /\ IsNumeric(Measurements[Out[k].src_obs].VALUE)
          /\ Out[k].Observation_Value = NumberOf(Measurements[Out[k].src_obs].VALUE)
    /\ \E k \in OutRows : Out[k].src_obs = 0

(***************************************************************************)
(* C4.                                                                     *)
(***************************************************************************)
\* C4 (as claimed): after the Cleaner, a measurement row whose source VALUE is
\* numeric holds that number, and one whose source VALUE is missing or not
\* numeric holds the median of the numeric values of the source column, or 0
\* when the column has none; no error is raised.
C4_ImputeSourceMedian ==
    Cleaned =>
        /\ Len(df_observations) = Len(Measurements)
        /\ \A i \in 1..Len(Measurements) :
              df_observations[i].VALUE =
                  IF IsNumeric(Measurements[i].VALUE)
                  THEN NumberOf(Measurements[i].VALUE)
                  ELSE FallbackOver(1..Len(Measurements))

\* C4 (amended): after the Cleaner, a measurement row other than the first whose
\* source VALUE is numeric holds that number; the first row, and every row whose
\* source VALUE is missing or not numeric, holds the median of the numeric source
\* values of the rows below the first, or 0 when those rows have none; no error
\* is raised by the step.
C4_ImputeMedianBelowFirst ==
    /\ Cleaned =>
        /\ Len(df_observations) = Len(Measurements)
        /\ \A i \in 1..Len(Measurements) :
              df_observations[i].VALUE =
                  IF i # 1 /\ IsNumeric(Measurements[i].VALUE)
                  THEN NumberOf(Measurements[i].VALUE)
                  ELSE RunFallback
    /\ pc = "merge_patients" => uncaught = "none"

\* The Cleaner has run on three rows: the first held free text and now holds 4.0,
\* the median of the 2 and the 6 below it, which are kept.
C4_Witness ==
    /\ pc = "merge_patients"
    /\ Len(Measurements) = 3
    /\ Measurements[1].VALUE = Str("abnormal")
    /\ Measurements[2].VALUE = NumText(2)
    /\ Measurements[3].VALUE = NumText(6)
    /\ df_observations[1].VALUE = Num(8)
    /\ df_observations[2].VALUE = Num(4)
    /\ df_observations[3].VALUE = Num(12)

(***************************************************************************)
(* C5.                                                                     *)
(***************************************************************************)
BadDate(c) == Tag(c) = "str"

\* C5: an unparseable date cell (START or STOP of a visit, DATE of a
\* measurement) does not abort the run: the run ends with no uncaught date
\* error, and in the final table that one field is null.
C5_BadDateRecovered ==
    /\ uncaught # "DateParseError"
    /\ HasFinal =>
          \A k \in OutRows :
              /\ BadDate(Visits[Out[k].src_visit].START)
                    => Out[k].Encounter_Start_DateTime = Null
              /\ BadDate(Visits[Out[k].src_visit].STOP)
                    => Out[k].Encounter_End_DateTime = Null
              /\ (Out[k].src_obs # 0 /\ BadDate(Measurements[Out[k].src_obs].DATE))
                    => Out[k].OBSERVATION_DATE = Null

(***************************************************************************)
(* C6.                                                                     *)
(***************************************************************************)
\* C6: the delimited file is written before anything is attempted on the store;
\* no failure of the store (connect, table replace, verification query) ends the
\* run with an uncaught error; a connection that was opened is closed when the
\* run ends.
C6_StoreFailureContained ==
    /\ (pc \in {"connect", "to_sql", "query", "finally", "done"} \/ conn # "none"
          \/ db_table.exists \/ logged)
          => csv_file.exists
    /\ uncaught # "sqlite3.OperationalError"
    /\ (pc \in {"done", "crashed"} /\ conn # "none") => conn = "closed"

(***************************************************************************)
(* C7.                                                                     *)
(***************************************************************************)
\* C7: when any of the three input files is missing the run halts at the load:
\* no transform runs (the tables read before the failure stay as read, nothing
\* else is built), no output file is written, no store table is created and no
\* connection is opened, whichever file is the missing one.
C7_MissingInputHalts ==
    ~AllPresent =>
        /\ pc \in {"load", "halted"}
        /\ pc = "halted" =>
              /\ df_patients = Persons
              /\ df_encounters = IF files.patients.exists THEN Visits ELSE <<>>
              /\ df_observations = <<>>
        /\ df_patients_clean = <<>>
        /\ median_value = Null
        /\ df_integrated_encounters = <<>>
        /\ df_unified_data = <<>>
        /\ df_unified_data_final = <<>>
        /\ ~csv_file.exists
        /\ ~db_table.exists
        /\ conn = "none"

\* The run has halted with only observations.csv missing, the two other files
\* holding rows.
C7_Witness ==
    /\ pc = "halted"
    /\ files.patients.exists /\ Persons # <<>>
    /\ files.encounters.exists /\ Visits # <<>>
    /\ ~files.observations.exists

(***************************************************************************)
(* C8.                                                                     *)
(***************************************************************************)
\* C8: a visit whose PATIENT matches no persons row is not dropped: it has rows
\* in the final table, and each keeps the visit's PATIENT, Id, start and stop,
\* class, code, description and reason fields and has GENDER, BIRTHDATE, CITY,
\* STATE and ZIP null.
C8_OrphanVisitKept ==
    HasFinal =>
        \A i \in 1..Len(Visits) :
            PersonsOf(Visits[i]) = 0 =>
                /\ \E k \in OutRows : Out[k].src_visit = i
                /\ \A k \in OutRows :
                      Out[k].src_visit = i =>
                          /\ Out[k].PATIENT = Visits[i].PATIENT
                          /\ Out[k].Encounter_ID = Visits[i].Id
                          /\ Out[k].Encounter_Start_DateTime = ToDatetime(Visits[i].START)
                          /\ Out[k].Encounter_End_DateTime = ToDatetime(Visits[i].STOP)
                          /\ Out[k].Encounter_Type_Class = Visits[i].ENCOUNTER_CLASS
                          /\ Out[k].Encounter_Code = Visits[i].CODE
                          /\ Out[k].Encounter_Description = Visits[i].DESCRIPTION
                          /\ Out[k].REASONCODE = Visits[i].REASONCODE
                          /\ Out[k].REASONDESCRIPTION = Visits[i].REASONDESCRIPTION
                          /\ Out[k].GENDER = Null
                          /\ Out[k].BIRTHDATE = Null
                          /\ Out[k].CITY = Null
                          /\ Out[k].STATE_ = Null
                          /\ Out[k].ZIP = Null

(***************************************************************************)
(* C10.                                                                    *)
(***************************************************************************)
\* C10: in every row of the final table Encounter_Code is the CODE of the visit
\* row the output row derives from, so visits of different CODEs have different
\* Encounter_Codes.
C10_EncounterCodeKept ==
    HasFinal =>
        \A k \in OutRows : Out[k].Encounter_Code = Visits[Out[k].src_visit].CODE

====
